---- MODULE Spec2Model ----
(***************************************************************************)
(* Brent oil change-point analysis: a state-machine model of               *)
(*   src/src/bayesian_change_point.py  (BayesianChangePointAnalyzer)       *)
(*   src/src/time_series_analysis.py   (BrentOilAnalyzer)                  *)
(*                                                                         *)
(* Dates are calendar dates, written as day numbers.  Python's None is the *)
(* record None, a missing attribute (hasattr is False) is Unset, and any   *)
(* other value v is Some(v).  Python sequences are 0-based: At(s, i) reads *)
(* s[i].                                                                   *)
(***************************************************************************)
EXTENDS Integers, Sequences, FiniteSets, TLC

----------------------------------------------------------------------------
(* Bounds of the model *)

\* largest number of runs of the detector on one analyzer
MaxRuns == 2
\* largest n_change_points a caller passes
MaxK == 2
\* largest number of posterior samples per variable (draws * chains)
MaxDraws == 2
\* row of a price file whose Price cell may be flawed
FlawRow == 10
\* a sampled change point lies at most this far above the lower end of its range
MaxSpread == 1
\* largest number of rows of the event catalog
MaxEvents == 3
\* rows of the duplicated-date data file that carry one and the same date
DupRun == 54
\* row at which the duplicated-date run starts
DupFrom == 50
\* largest number of breakpoints a segmentation returns before the end marker
MaxBkps == 2
\* a segment is at most this many jumps longer than the minimum size
MaxSlack == 1

(* Program constants *)

\* lower=50 and change_points[i-1] + 50
MinRegimeSize == 50
\* associate_with_events(self, window_days=30)
DefaultWindowDays == 30
\* ruptures.Pelt / ruptures.Binseg (min_size=30, jump=5)
MinSize == 30
Jump == 5
\* model_binseg.predict(n_bkps=10)
NBkps == 10

----------------------------------------------------------------------------
(* Python values *)

None == [tag |-> "None"]
Unset == [tag |-> "Unset"]
Some(v) == [tag |-> "Some", v |-> v]
IsSome(x) == x.tag = "Some"

At(s, i) == s[i + 1]
Last(s) == s[Len(s)]
Range(s) == {s[i] : i \in 1..Len(s)}
Abs(x) == IF x < 0 THEN -x ELSE x
Min(S) == CHOOSE x \in S : \A y \in S : x <= y
Max(S) == CHOOSE x \in S : \A y \in S : x >= y

\* a sequence written as a function, as the tuple it is
Tuple(f) == f \o <<>>

RECURSIVE SumSeq(_)
SumSeq(s) == IF s = <<>> THEN 0 ELSE s[1] + SumSeq(Tail(s))

\* list.sort(key=...): a stable sort of s, ascending by key; keys[i] is the
\* key of s[i]
StableSort(s, keys) ==
    LET n == Len(s)
        k == Tuple(keys)
        rank == Tuple([i \in 1..n |-> Cardinality({j \in 1..n :
                                         \/ k[j] < k[i]
                                         \/ k[j] = k[i] /\ j < i})])
    IN Tuple([p \in 1..n |-> s[CHOOSE i \in 1..n : rank[i] = p - 1]])

\* sequences over S of length lo..hi
SeqsOf(S, lo, hi) == UNION {[1..k -> S] : k \in lo..hi}

----------------------------------------------------------------------------
(* The files on disk *)

\* lengths of the log-return series
Lengths == {64, 150}

\* a price file of rows+1 well-formed rows, in date order; with dup > 1 the
\* rows DupFrom .. DupFrom+dup-1 carry the same date
RowDate(r, dup) ==
    IF r < DupFrom THEN r
    ELSE IF r < DupFrom + dup THEN DupFrom
    ELSE r - dup + 1

\* the text of a Price cell: a positive number, a negative one, zero, no number
PriceCells == {"70.5", "-37.6", "0", "n/a"}
Positive == "70.5"

\* such a file with the Price cell of row FlawRow set to cell
PriceFile(n, dup, cell) ==
    [r \in 1..(n + 1) |-> [Date |-> RowDate(r - 1, dup),
                           Price |-> IF r - 1 = FlawRow THEN cell ELSE Positive]]

\* the price files there are; a path <<n, dup, cell>> names PriceFile(n, dup, cell)
DataPaths == (Lengths \X {1, DupRun} \X {Positive}) \cup ({64} \X {1} \X PriceCells)
BrentPaths == {<<64, 1, Positive>>, <<330, 1, Positive>>}
\* data/BrentOilPrices.csv as the Task 2 runner may find it
RunnerPaths == {<<64, 1, Positive>>, <<360, 1, Positive>>}
ReadCsv(path) == PriceFile(path[1], path[2], path[3])

\* dates of catalog events: 30 and 31 days either side of the date of the
\* earliest change point a model allows (index 50 of a daily series)
FirstCpDate == MinRegimeSize + 1
EventDates == {FirstCpDate - DefaultWindowDays - 1, FirstCpDate - DefaultWindowDays,
               FirstCpDate + DefaultWindowDays, FirstCpDate + DefaultWindowDays + 1}

\* the event catalogs there are; None: there is no file at events_path
EventFiles == {Some(f) : f \in SeqsOf(EventDates, 0, MaxEvents)} \cup {None}
SmallEventFiles == {Some(f) : f \in SeqsOf(EventDates, 0, 1)} \cup {None}

----------------------------------------------------------------------------
VARIABLES
    PYMCMC_AVAILABLE, \* module flag: pymc and arviz could be imported
    ruptures_available, \* import ruptures succeeds
    data_path,        \* constructor argument: the price file
    events_path,      \* constructor argument: None or Some("path")
    events_file,      \* content of the file at events_path, None if there is no file
    df,               \* self.df: dates of the cleaned price rows
    log_returns,      \* self.log_returns: its date index
    events_df,        \* self.events_df: dates of the catalog rows
    model,            \* self.model
    trace,            \* self.trace
    change_points,    \* self.change_points
    regime_analysis,  \* self.regime_analysis (Unset until assigned)
    event_associations, \* self.event_associations (Unset until assigned)
    report_file,      \* output/bayesian_change_point_report.txt
    brent,            \* the fields of a BrentOilAnalyzer
    rng,              \* what pm.sample has returned so far, by seed and arguments
    history,          \* the point estimates identify_change_points has produced so far
    stdout,           \* the lines the Task 2 runner has printed
    dm,               \* the fields of the dashboard's DataManager
    call,             \* the last call made: its name and argument
    result,           \* value returned by the last call
    err,              \* exception raised by the last call, "none" if it returned
    pc                \* position in run_complete_analysis, "idle" outside it

inputVars == <<PYMCMC_AVAILABLE, ruptures_available, data_path, events_path, events_file>>
selfVars == <<df, log_returns, events_df, model, trace, change_points,
              regime_analysis, event_associations>>
samplerVars == <<rng, history>>
appVars == <<stdout, dm>>
vars == <<inputVars, selfVars, report_file, brent, samplerVars, appVars,
          call, result, err, pc>>

----------------------------------------------------------------------------
(* load_and_preprocess_data *)

\* parse_date gives NaT for a date no format parses
NaT == -1

\* df after dropna(Date), sort_values('Date'), to_numeric, dropna(Price),
\* set_index('Date'): the dates of the rows kept, ascending
CleanRows(rows) ==
    LET dated == SelectSeq(rows, LAMBDA r : r.Date # NaT)
        sorted == StableSort(dated, [i \in 1..Len(dated) |-> dated[i].Date])
    IN SelectSeq(sorted, LAMBDA r : r.Price # "n/a")

\* the index of that df
CleanDates(rows) ==
    LET priced == CleanRows(rows)
    IN Tuple([i \in 1..Len(priced) |-> priced[i].Date])

\* sign of the number pd.to_numeric reads from a Price cell
PriceSign(cell) ==
    CASE cell = "70.5" -> 1
      [] cell = "-37.6" -> -1
      [] cell = "0" -> 0

\* np.log(cur / prev) is NaN: the quotient is negative or 0/0 (x/0 is +-inf,
\* log(inf) is inf and log(0) is -inf, which dropna keeps)
LogReturnIsNaN(prev, cur) ==
    IF PriceSign(prev) = 0 THEN PriceSign(cur) <= 0
    ELSE PriceSign(prev) * PriceSign(cur) < 0

\* pct_change is NaN: 0/0
ReturnIsNaN(prev, cur) == PriceSign(prev) = 0 /\ PriceSign(cur) = 0

\* the index of a series of returns after dropna(): the rows at the
\* positions of nan that hold FALSE
DropNa(priced, nan) ==
    LET kept == SelectSeq([i \in 1..Len(priced) |-> i], LAMBDA i : ~nan[i])
    IN Tuple([i \in 1..Len(kept) |-> priced[kept[i]].Date])

\* np.log(Price / Price.shift(1)).dropna(): the first row has no return
LogReturnIndex(priced) ==
    DropNa(priced, [i \in 1..Len(priced) |->
                       i = 1 \/ LogReturnIsNaN(priced[i - 1].Price, priced[i].Price)])

\* Price.pct_change().dropna()
ReturnIndex(priced) ==
    DropNa(priced, [i \in 1..Len(priced) |->
                       i = 1 \/ ReturnIsNaN(priced[i - 1].Price, priced[i].Price)])

LoadedEvents ==
    IF IsSome(events_path)
    THEN (IF IsSome(events_file) THEN Some(events_file.v) ELSE None)
    ELSE events_df

\* the two series of every price file, computed once
Preprocessed ==
    [path \in DataPaths \cup BrentPaths \cup RunnerPaths |->
        [df |-> CleanDates(ReadCsv(path)),
         log_returns |-> LogReturnIndex(CleanRows(ReadCsv(path)))]]

load_and_preprocess_data ==
    /\ call' = [name |-> "load_and_preprocess_data"]
    /\ df' = Some(Preprocessed[data_path].df)
    /\ log_returns' = Some(Preprocessed[data_path].log_returns)
    /\ events_df' = LoadedEvents
    /\ result' = [tag |-> "self"]
    /\ err' = "none"
    /\ UNCHANGED <<model, trace, change_points, regime_analysis,
                   event_associations, report_file>>

----------------------------------------------------------------------------
(* build_bayesian_change_point_model *)

\* int(0.8*n), int(0.9*n)
Int08(n) == (8 * n) \div 10
Int09(n) == (9 * n) \div 10

\* DiscreteUniform(f'cp_{i}', lower, upper); prev is the value of cp_{i-1}
CpLower(i, prev) == IF i = 0 THEN MinRegimeSize ELSE prev + MinRegimeSize
CpUpper(i, n) == IF i = 0 THEN Int08(n) ELSE Int09(n)

\* index of the (mu, sigma) pair the likelihood gives observation t
LikelihoodRegime(t) == 0

build_bayesian_change_point_model(n_change_points) ==
    /\ call' = [name |-> "build_bayesian_change_point_model", n_change_points |-> n_change_points]
    /\ IF ~PYMCMC_AVAILABLE
       THEN /\ err' = "ImportError"
            /\ result' = [tag |-> "raised"]
            /\ UNCHANGED model
       ELSE IF ~IsSome(log_returns)
       THEN /\ err' = "AttributeError"
            /\ result' = [tag |-> "raised"]
            /\ UNCHANGED model
       ELSE /\ model' = Some([n_change_points |-> n_change_points,
                              n |-> Len(log_returns.v)])
            /\ result' = [tag |-> "model"]
            /\ err' = "none"
    /\ UNCHANGED <<df, log_returns, events_df, trace, change_points,
                   regime_analysis, event_associations, report_file>>

----------------------------------------------------------------------------
(* run_mcmc_sampling *)

\* values of one change point the sampler visits, within its range
SampledValues(lo, hi) == {c \in lo..hi : c <= lo + MaxSpread}

\* joint draws <<cp_0, ..., cp_{k-1}>> every one of which lies in its range
RECURSIVE Support(_, _)
Support(n, k) ==
    IF k = 0 THEN {<<>>}
    ELSE UNION {{Append(v, c) :
                    c \in SampledValues(CpLower(k - 1, IF k = 1 THEN 0 ELSE v[k - 1]),
                                        CpUpper(k - 1, n))} :
                v \in Support(n, k - 1)}

\* the sampler's start: the middle of each range
RECURSIVE StartPoint(_, _)
StartPoint(n, k) ==
    IF k = 0 THEN <<>>
    ELSE LET v == StartPoint(n, k - 1)
             lo == CpLower(k - 1, IF k = 1 THEN 0 ELSE v[k - 1])
         IN Append(v, (lo + CpUpper(k - 1, n)) \div 2)

\* the start has finite log-probability: every cp_i lies in its range
StartOk(n, k) ==
    LET v == StartPoint(n, k)
    IN \A i \in 1..k :
          /\ CpLower(i - 1, IF i = 1 THEN 0 ELSE v[i - 1]) <= v[i]
          /\ v[i] <= CpUpper(i - 1, n)

\* random_seed=42
RandomSeed == 42

\* what seeds a sampler left without a seed: entropy of the system
Entropy == {0, 1}

\* a sampler seeded from the system's entropy
SampleSeedFresh(entropy) == entropy

\* the seed pm.sample is given, whatever the entropy of the system
SampleSeed(entropy) == RandomSeed

\* pm.sample(draws, tune, chains, random_seed) on the model of n observations
\* and k change points: a trace of joint draws; the same seed, data and
\* arguments give the trace they gave before.  r_hat_high: az.summary will
\* show an r_hat above 1.1
PmSample(seed, n, k, draws) ==
    LET key == <<seed, data_path, k, draws>>
        drawn == {e \in rng : e.key = key}
    IN IF drawn # {}
       THEN /\ trace' = Some((CHOOSE e \in drawn : TRUE).trace)
            /\ UNCHANGED rng
       ELSE \E d \in [1..draws -> Support(n, k)], r \in BOOLEAN :
               LET tr == [posterior |-> d, n_cp |-> k, n_mu |-> k + 1,
                          seed |-> seed, r_hat_high |-> r]
               IN /\ trace' = Some(tr)
                  /\ rng' = rng \cup {[key |-> key, trace |-> tr]}

run_mcmc_sampling(draws) ==
    /\ call' = [name |-> "run_mcmc_sampling", draws |-> draws]
    /\ IF ~IsSome(model)
       THEN /\ err' = "ValueError"
            /\ result' = [tag |-> "raised"]
            /\ UNCHANGED <<trace, rng>>
       ELSE LET n == model.v.n
                k == model.v.n_change_points
            IN IF ~StartOk(n, k)
               THEN /\ err' = "SamplingError"
                    /\ result' = [tag |-> "raised"]
                    /\ UNCHANGED <<trace, rng>>
               ELSE /\ \E entropy \in Entropy :
                          PmSample(SampleSeed(entropy), n, k, draws)
                    /\ result' = [tag |-> "trace"]
                    /\ err' = "none"
    /\ UNCHANGED <<df, log_returns, events_df, model, change_points,
                   regime_analysis, event_associations, report_file>>

----------------------------------------------------------------------------
(* check_convergence *)

check_convergence ==
    /\ call' = [name |-> "check_convergence"]
    /\ IF ~IsSome(trace)
       THEN /\ err' = "ValueError"
            /\ result' = [tag |-> "raised"]
       ELSE /\ err' = "none"
            \* if r_hat_values.max() > 1.1: print("WARNING: ...")
            /\ result' = [tag |-> "summary", warning_printed |-> trace.v.r_hat_high]
    /\ UNCHANGED <<selfVars, report_file>>

----------------------------------------------------------------------------
(* identify_change_points *)

\* trace.posterior[f'cp_{i}'].values.flatten()
CpSamples(tr, i) == [d \in 1..Len(tr.posterior) |-> tr.posterior[d][i + 1]]

Sorted(samples) == StableSort(samples, samples)

\* int(np.mean(samples))
MeanIndex(samples) == SumSeq(samples) \div Len(samples)

\* int(np.median(samples))
MedianIndex(samples) ==
    LET a == Sorted(samples)
        n == Len(a)
    IN IF n % 2 = 1 THEN At(a, n \div 2)
       ELSE (At(a, n \div 2 - 1) + At(a, n \div 2)) \div 2

\* az.hdi(samples, hdi_prob=0.95): the narrowest interval of the sorted
\* samples spanning floor(0.95*n) steps, the first one among equals
Hdi(samples) ==
    LET a == Sorted(samples)
        n == Len(a)
        inc == (95 * n) \div 100
        width(j) == At(a, j + inc) - At(a, j)
        j0 == Min({j \in 0..(n - inc - 1) :
                     \A k \in 0..(n - inc - 1) : width(j) <= width(k)})
    IN <<At(a, j0), At(a, j0 + inc)>>

\* the entry appended for cp_i
CpAnalysis(tr, index, i) ==
    LET samples == CpSamples(tr, i)
        mean_cp == MeanIndex(samples)
        median_cp == MedianIndex(samples)
        hdi == Hdi(samples)
    IN [change_point_name |-> i,
        mean_index |-> mean_cp,
        median_index |-> median_cp,
        mean_date |-> At(index, mean_cp),
        median_date |-> At(index, median_cp),
        hdi_lower |-> hdi[1],
        hdi_upper |-> hdi[2],
        hdi_lower_date |-> At(index, hdi[1]),
        hdi_upper_date |-> At(index, hdi[2])]

\* change_points_analysis.sort(key=lambda x: x['mean_date'])
SortByMeanDate(cps) == StableSort(cps, [i \in 1..Len(cps) |-> cps[i].mean_date])

ChangePointsAnalysis(tr, index) ==
    SortByMeanDate([j \in 1..tr.n_cp |-> CpAnalysis(tr, index, j - 1)])

\* a run of the detector as seen from outside: the series, the seed and the
\* arguments it ran with, and the point estimates it gave
Observed(tr, cps) ==
    [series |-> data_path, seed |-> tr.seed, n_change_points |-> tr.n_cp,
     draws |-> Len(tr.posterior),
     estimates |-> [j \in 1..Len(cps) |->
                       [name |-> cps[j].change_point_name,
                        mean_index |-> cps[j].mean_index,
                        median_index |-> cps[j].median_index]]]

identify_change_points ==
    /\ call' = [name |-> "identify_change_points"]
    /\ IF ~IsSome(trace)
       THEN /\ err' = "ValueError"
            /\ result' = [tag |-> "raised"]
            /\ UNCHANGED change_points
       ELSE /\ change_points' = Some(ChangePointsAnalysis(trace.v, log_returns.v))
            /\ result' = Some(ChangePointsAnalysis(trace.v, log_returns.v))
            /\ err' = "none"
    /\ UNCHANGED <<df, log_returns, events_df, model, trace,
                   regime_analysis, event_associations, report_file>>

----------------------------------------------------------------------------
(* quantify_regime_impacts *)

\* start_date of regime i
RegimeStart(i, cps, index) ==
    IF i = 0 THEN At(index, 0)
    ELSE IF i < Len(cps) THEN At(cps, i - 1).mean_date
    ELSE Last(cps).mean_date

\* end_date with the middle branch left out: every regime after the first
\* runs to the end of the series
RegimeEndFirstOnly(i, cps, index) ==
    IF i = 0 THEN (IF cps # <<>> THEN At(cps, 0).mean_date ELSE Last(index))
    ELSE Last(index)

\* end_date of regime i
RegimeEnd(i, cps, index) ==
    IF i = 0 THEN (IF cps # <<>> THEN At(cps, 0).mean_date ELSE Last(index))
    ELSE IF i < Len(cps) THEN At(cps, i).mean_date
    ELSE Last(index)

\* one entry per mu_i of the trace
RegimeAnalysis(tr, cps, index) ==
    [j \in 1..tr.n_mu |->
        [regime |-> j - 1,
         start_date |-> RegimeStart(j - 1, cps, index),
         end_date |-> RegimeEnd(j - 1, cps, index),
         duration_days |-> RegimeEnd(j - 1, cps, index) - RegimeStart(j - 1, cps, index)]]

quantify_regime_impacts ==
    /\ call' = [name |-> "quantify_regime_impacts"]
    /\ IF ~IsSome(change_points)
       THEN /\ err' = "ValueError"
            /\ result' = [tag |-> "raised"]
       ELSE IF change_points.v = <<>> /\ trace.v.n_mu > 1
       THEN \* self.change_points[-1] of an empty list, for a trace sampled
            \* after the change points were identified
            /\ err' = "IndexError"
            /\ result' = [tag |-> "raised"]
       ELSE /\ result' = Some(RegimeAnalysis(trace.v, change_points.v, log_returns.v))
            /\ err' = "none"
    /\ UNCHANGED <<df, log_returns, events_df, model, trace, change_points,
                   event_associations, report_file>>

----------------------------------------------------------------------------
(* associate_with_events *)

\* abs((cp_date - event_date).days)
DaysDiff(cp_date, event_date) == Abs(cp_date - event_date)

\* the window without its edge
InWindowStrict(days_diff, window_days) == days_diff < window_days

\* if days_diff <= window_days
InWindow(days_diff, window_days) == days_diff <= window_days

\* a sort by distance that puts the later row first among equals
SortByProximityLastFirst(evs) ==
    StableSort(evs, [i \in 1..Len(evs) |->
                        2 * evs[i].days_from_cp * (Len(evs) + 1) - evs[i].row])

\* associated_events.sort(key=lambda x: x['days_from_cp'])
SortByProximity(evs) == StableSort(evs, [i \in 1..Len(evs) |-> evs[i].days_from_cp])

\* the events of the catalog within window_days of cp_date; row stands for
\* the row's other columns (category, description, impact, confidence)
AssociatedEvents(cp_date, events, window_days) ==
    LET all == [k \in 1..Len(events) |->
                   [event_date |-> events[k],
                    days_from_cp |-> DaysDiff(cp_date, events[k]),
                    row |-> k - 1]]
    IN SortByProximity(SelectSeq(all, LAMBDA e : InWindow(e.days_from_cp, window_days)))

\* the entries of the change points that have events, the others dropped
AssociationsSkipEmpty(cps, events, window_days) ==
    SelectSeq([j \in 1..Len(cps) |->
                  [change_point_date |-> cps[j].mean_date,
                   change_point_index |-> cps[j].mean_index,
                   associated_events |-> AssociatedEvents(cps[j].mean_date, events, window_days)]],
              LAMBDA a : a.associated_events # <<>>)

\* one entry per change point
Associations(cps, events, window_days) ==
    [j \in 1..Len(cps) |->
        [change_point_date |-> cps[j].mean_date,
         change_point_index |-> cps[j].mean_index,
         associated_events |-> AssociatedEvents(cps[j].mean_date, events, window_days)]]

associate_with_events(window_days) ==
    /\ call' = [name |-> "associate_with_events", window_days |-> window_days]
    /\ IF ~IsSome(change_points) \/ ~IsSome(events_df)
       THEN result' = None
       ELSE result' = Some(Associations(change_points.v, events_df.v, window_days))
    /\ err' = "none"
    /\ UNCHANGED <<df, log_returns, events_df, model, trace, change_points,
                   regime_analysis, report_file>>

----------------------------------------------------------------------------
(* plot_change_point_analysis *)

\* the plots drawn without the check that change points were identified
PlotUnchecked ==
    /\ call' = [name |-> "plot_change_point_analysis"]
    /\ err' = "none"
    /\ result' = None
    /\ UNCHANGED <<selfVars, report_file>>

plot_change_point_analysis ==
    /\ call' = [name |-> "plot_change_point_analysis"]
    /\ IF ~IsSome(change_points)
       THEN /\ err' = "ValueError"
            /\ result' = [tag |-> "raised"]
       ELSE /\ err' = "none"
            /\ result' = None
    /\ UNCHANGED <<selfVars, report_file>>

----------------------------------------------------------------------------
(* generate_insights_report *)

Section(title, body) == [title |-> title, body |-> body]

SummarySection(cps, index) ==
    Section("EXECUTIVE SUMMARY",
            [period |-> <<At(index, 0), Last(index)>>,
             total_observations |-> Len(index),
             detected_change_points |-> Len(cps)])

ChangePointsSection(cps) ==
    Section("DETECTED CHANGE POINTS",
            [j \in 1..Len(cps) |->
                [number |-> j,
                 date |-> cps[j].mean_date,
                 confidence_interval |-> <<cps[j].hdi_lower_date, cps[j].hdi_upper_date>>]])

\* if hasattr(self, 'regime_analysis')
RegimeSections(regimes) ==
    IF regimes = Unset THEN <<>>
    ELSE <<Section("REGIME ANALYSIS",
                   [j \in 1..Len(regimes.v) |->
                       [regime |-> regimes.v[j].regime,
                        period |-> <<regimes.v[j].start_date, regimes.v[j].end_date>>,
                        duration_days |-> regimes.v[j].duration_days]])>>

\* if hasattr(self, 'event_associations'): the loop needs a list
EventSections(assocs) ==
    IF assocs = Unset THEN <<>>
    ELSE <<Section("EVENT ASSOCIATIONS",
                   [j \in 1..Len(assocs.v) |->
                       [change_point |-> assocs.v[j].change_point_date,
                        events |-> [k \in 1..Len(assocs.v[j].associated_events) |->
                                       [days |-> assocs.v[j].associated_events[k].days_from_cp,
                                        row |-> assocs.v[j].associated_events[k].row]]]])>>

\* one transition per adjacent pair of regimes
ImpactSection(regimes) ==
    Section("QUANTITATIVE IMPACT ANALYSIS",
            IF regimes # Unset /\ Len(regimes.v) > 1
            THEN [j \in 1..(Len(regimes.v) - 1) |-> [from |-> j - 1, to |-> j]]
            ELSE <<>>)

ReportText(cps, index, regimes, assocs) ==
    <<SummarySection(cps, index), ChangePointsSection(cps)>>
    \o RegimeSections(regimes) \o EventSections(assocs)
    \o <<ImpactSection(regimes)>>

\* a file opened in a mode that keeps what it holds and writes after it
AppendFile(old, text) == IF IsSome(old) THEN Some(old.v \o text) ELSE Some(text)

\* with open(..., 'w') as f: f.write(report_text)
WriteFile(old, text) == Some(text)

generate_insights_report ==
    /\ call' = [name |-> "generate_insights_report"]
    /\ IF ~IsSome(change_points)
       THEN /\ err' = "ValueError"
            /\ result' = [tag |-> "raised"]
            /\ UNCHANGED report_file
       ELSE IF event_associations = None
       THEN /\ err' = "TypeError"
            /\ result' = [tag |-> "raised"]
            /\ UNCHANGED report_file
       ELSE /\ report_file' = WriteFile(report_file,
                                        ReportText(change_points.v, log_returns.v,
                                                   regime_analysis, event_associations))
            /\ result' = Some(ReportText(change_points.v, log_returns.v,
                                         regime_analysis, event_associations))
            /\ err' = "none"
    /\ UNCHANGED selfVars

----------------------------------------------------------------------------
(* run_complete_analysis calls the stages in order; an exception of a stage *)
(* leaves it.  The caller may ask for the associations of another window.   *)

\* window_days a caller passes
Windows == {DefaultWindowDays - 1, DefaultWindowDays}

\* a caller that goes on to the next stage whatever the last one did
AfterAnyway(next) == next

\* where run_complete_analysis is after the stage it has just called
After(next) == IF err' = "none" THEN next ELSE "raised"

\* BrentOilAnalyzer(data_path)
NewBrent == [df |-> None, df_processed |-> None, returns |-> None,
             log_returns |-> None, events_df |-> None]

\* DataManager before load_data
NewDataManager == [price_data |-> None, events_data |-> None,
                   change_points |-> None, regime_analysis |-> None]

\* BayesianChangePointAnalyzer(data_path, events_path)
InitWith(paths, eventFiles) ==
    /\ PYMCMC_AVAILABLE \in BOOLEAN
    /\ ruptures_available = TRUE
    /\ brent = NewBrent
    /\ rng = {}
    /\ history = <<>>
    /\ stdout = <<>>
    /\ dm = NewDataManager
    /\ call = [name |-> "__init__"]
    /\ data_path \in paths
    /\ events_path \in {None, Some("events.csv")}
    /\ events_file \in (IF IsSome(events_path) THEN eventFiles ELSE {None})
    /\ df = None
    /\ log_returns = None
    /\ events_df = None
    /\ model = None
    /\ trace = None
    /\ change_points = None
    /\ regime_analysis = Unset
    /\ event_associations = Unset
    /\ report_file = None
    /\ result = None
    /\ err = "none"
    /\ pc = "idle"

Init == InitWith(DataPaths, SmallEventFiles)

RunCompleteAnalysis ==
    /\ pc = "idle"
    /\ pc' = "load"
    /\ UNCHANGED <<inputVars, selfVars, report_file, brent, samplerVars, appVars,
                   call, result, err>>

Load ==
    /\ pc = "load"
    /\ load_and_preprocess_data
    /\ pc' = After("build")
    /\ UNCHANGED <<inputVars, brent, appVars, samplerVars>>

Build ==
    /\ pc = "build"
    /\ \E k \in 0..MaxK : build_bayesian_change_point_model(k)
    /\ pc' = After("sample")
    /\ UNCHANGED <<inputVars, brent, appVars, samplerVars>>

Sample ==
    /\ pc = "sample"
    /\ \E draws \in 1..MaxDraws : run_mcmc_sampling(draws)
    /\ pc' = After("check")
    /\ UNCHANGED <<inputVars, brent, appVars, history>>

CheckConvergence ==
    /\ pc = "check"
    /\ check_convergence
    /\ pc' = After("identify")
    /\ UNCHANGED <<inputVars, brent, appVars, samplerVars>>

Identify ==
    /\ pc = "identify"
    /\ identify_change_points
    /\ history' = IF err' = "none" THEN Append(history, Observed(trace.v, change_points'.v))
                   ELSE history
    /\ pc' = After("quantify")
    /\ UNCHANGED <<inputVars, brent, appVars, rng>>

\* self.regime_analysis = self.quantify_regime_impacts()
Quantify ==
    /\ pc = "quantify"
    /\ quantify_regime_impacts
    /\ regime_analysis' = IF err' = "none" THEN result' ELSE regime_analysis
    /\ pc' = After("associate")
    /\ UNCHANGED <<inputVars, brent, appVars, samplerVars>>

\* self.event_associations = self.associate_with_events()
Associate ==
    /\ pc = "associate"
    /\ associate_with_events(DefaultWindowDays)
    /\ event_associations' = result'
    /\ pc' = After("plot")
    /\ UNCHANGED <<inputVars, brent, appVars, samplerVars>>

Plot ==
    /\ pc = "plot"
    /\ plot_change_point_analysis
    /\ pc' = After("report")
    /\ UNCHANGED <<inputVars, brent, appVars, samplerVars>>

Report ==
    /\ pc = "report"
    /\ generate_insights_report
    /\ pc' = After("done")
    /\ UNCHANGED <<inputVars, brent, appVars, samplerVars>>

\* analyzer.associate_with_events(window_days), called once
\* run_complete_analysis has returned or raised
CallAssociate ==
    /\ pc \in {"done", "raised"}
    /\ \E w \in Windows : associate_with_events(w)
    /\ UNCHANGED <<event_associations, pc, inputVars, brent, appVars, samplerVars>>

Next ==
    \/ RunCompleteAnalysis
    \/ Load
    \/ Build
    \/ Sample
    \/ CheckConvergence
    \/ Identify
    \/ Quantify
    \/ Associate
    \/ Plot
    \/ Report
    \/ CallAssociate

Spec == Init /\ [][Next]_vars

\* one short daily series, every event catalog
InitEvents == InitWith({<<64, 1, Positive>>}, EventFiles)
SpecEvents == InitEvents /\ [][Next]_vars

----------------------------------------------------------------------------
(* One analyzer used again: run_complete_analysis called once more after it *)
(* has returned or raised, and generate_insights_report called on its own.  *)

InitAgain == InitWith({<<64, 1, Positive>>}, {Some(<<>>)})

\* analyzer.run_complete_analysis(...) once more
RunAgain ==
    /\ pc \in {"done", "raised"}
    /\ Len(history) < MaxRuns
    /\ pc' = "load"
    /\ UNCHANGED <<inputVars, selfVars, report_file, brent, samplerVars, appVars,
                   call, result, err>>

\* analyzer.generate_insights_report()
CallReport ==
    /\ pc \in {"done", "raised"}
    /\ generate_insights_report
    /\ UNCHANGED <<pc, inputVars, brent, appVars, samplerVars>>

NextAgain ==
    \/ RunCompleteAnalysis
    \/ Load
    \/ Build
    \/ Sample
    \/ CheckConvergence
    \/ Identify
    \/ Quantify
    \/ Associate
    \/ Plot
    \/ Report
    \/ RunAgain
    \/ CallReport

SpecAgain == InitAgain /\ [][NextAgain]_vars

----------------------------------------------------------------------------
(* One analyzer whose methods a caller invokes in any order; pc counts the *)
(* calls made.                                                              *)

\* calls a caller makes
MaxCalls == 6

InitCalls ==
    /\ PYMCMC_AVAILABLE = TRUE
    /\ ruptures_available = TRUE
    /\ brent = NewBrent
    /\ rng = {}
    /\ history = <<>>
    /\ stdout = <<>>
    /\ dm = NewDataManager
    /\ call = [name |-> "__init__"]
    /\ data_path = <<64, 1, Positive>>
    /\ events_path = Some("events.csv")
    /\ events_file = Some(<<>>)
    /\ df = None
    /\ log_returns = None
    /\ events_df = None
    /\ model = None
    /\ trace = None
    /\ change_points = None
    /\ regime_analysis = Unset
    /\ event_associations = Unset
    /\ report_file = None
    /\ result = None
    /\ err = "none"
    /\ pc = 0

\* the caller goes on to its next call
NextCall ==
    /\ pc < MaxCalls
    /\ pc' = pc + 1
    /\ UNCHANGED <<inputVars, brent, appVars, history>>

AnyLoad ==
    /\ NextCall
    /\ load_and_preprocess_data
    /\ UNCHANGED rng

AnyBuild ==
    /\ NextCall
    /\ \E k \in 0..MaxK : build_bayesian_change_point_model(k)
    /\ UNCHANGED rng

AnySample ==
    /\ NextCall
    /\ \E draws \in 1..MaxDraws : run_mcmc_sampling(draws)

AnyCheckConvergence ==
    /\ NextCall
    /\ check_convergence
    /\ UNCHANGED rng

AnyIdentify ==
    /\ NextCall
    /\ identify_change_points
    /\ UNCHANGED rng

\* the regimes are returned; the attribute is the caller's to assign
AnyQuantify ==
    /\ NextCall
    /\ quantify_regime_impacts
    /\ UNCHANGED <<regime_analysis, rng>>

AnyAssociate ==
    /\ NextCall
    /\ associate_with_events(DefaultWindowDays)
    /\ UNCHANGED <<event_associations, rng>>

AnyPlot ==
    /\ NextCall
    /\ plot_change_point_analysis
    /\ UNCHANGED rng

AnyReport ==
    /\ NextCall
    /\ generate_insights_report
    /\ UNCHANGED rng

NextCalls ==
    \/ AnyLoad
    \/ AnyBuild
    \/ AnySample
    \/ AnyCheckConvergence
    \/ AnyIdentify
    \/ AnyQuantify
    \/ AnyAssociate
    \/ AnyPlot
    \/ AnyReport

SpecCalls == InitCalls /\ [][NextCalls]_vars

----------------------------------------------------------------------------
(* One analyzer after run_complete_analysis has returned: the caller builds *)
(* another model, samples it, identifies its change points and writes the   *)
(* report, each by a call of its own.                                       *)

InitRedo ==
    /\ InitWith({<<64, 1, Positive>>}, {Some(<<>>)})
    /\ PYMCMC_AVAILABLE
    /\ IsSome(events_path)

\* analyzer.build_bayesian_change_point_model(n_change_points=k)
RedoBuild ==
    /\ pc = "done"
    /\ \E k \in 0..MaxK : build_bayesian_change_point_model(k)
    /\ pc' = After("rebuilt")
    /\ UNCHANGED <<inputVars, brent, appVars, samplerVars>>

\* analyzer.run_mcmc_sampling(draws=draws)
RedoSample ==
    /\ pc = "rebuilt"
    /\ \E draws \in 1..MaxDraws : run_mcmc_sampling(draws)
    /\ pc' = After("resampled")
    /\ UNCHANGED <<inputVars, brent, appVars, history>>

\* analyzer.identify_change_points()
RedoIdentify ==
    /\ pc = "resampled"
    /\ identify_change_points
    /\ pc' = After("reidentified")
    /\ UNCHANGED <<inputVars, brent, appVars, samplerVars>>

\* analyzer.generate_insights_report()
RedoReport ==
    /\ pc = "reidentified"
    /\ generate_insights_report
    /\ pc' = After("reported")
    /\ UNCHANGED <<inputVars, brent, appVars, samplerVars>>

NextRedo ==
    \/ RunCompleteAnalysis
    \/ Load
    \/ Build
    \/ Sample
    \/ CheckConvergence
    \/ Identify
    \/ Quantify
    \/ Associate
    \/ Plot
    \/ Report
    \/ RedoBuild
    \/ RedoSample
    \/ RedoIdentify
    \/ RedoReport

SpecRedo == InitRedo /\ [][NextRedo]_vars

----------------------------------------------------------------------------
(* BrentOilAnalyzer: load_data, preprocess_data, change_point_analysis *)

\* the attributes of the BrentOilAnalyzer that a method leaves alone
bayesVars == <<selfVars, report_file>>

load_data ==
    /\ call' = [name |-> "load_data"]
    /\ brent' = [brent EXCEPT !.df = Some(ReadCsv(data_path)),
                              !.events_df = events_file]
    /\ result' = [tag |-> "self"]
    /\ err' = "none"

preprocess_data ==
    /\ call' = [name |-> "preprocess_data"]
    /\ IF ~IsSome(brent.df)
       THEN /\ err' = "AttributeError"
            /\ result' = [tag |-> "raised"]
            /\ UNCHANGED brent
       ELSE LET priced == CleanRows(brent.df.v)
            IN /\ brent' = [brent EXCEPT !.df_processed = Some(CleanDates(brent.df.v)),
                                         !.returns = Some(ReturnIndex(priced)),
                                         !.log_returns = Some(LogReturnIndex(priced))]
               /\ result' = [tag |-> "self"]
               /\ err' = "none"

\* ruptures.utils.sanity_check as predict calls it
SanityCheck(n_samples, n_bkps) ==
    /\ n_bkps <= n_samples \div Jump
    /\ n_bkps * (((MinSize + Jump - 1) \div Jump) * Jump) + MinSize <= n_samples

\* breakpoints a search may put after start: multiples of jump that leave
\* min_size samples on both sides
RECURSIVE BkpsFrom(_, _, _)
BkpsFrom(start, n, count) ==
    {<<>>} \cup
    (IF count = 0 THEN {}
     ELSE UNION {{<<b>> \o rest : rest \in BkpsFrom(b, n, count - 1)} :
                 b \in {c \in {start + MinSize + Jump * s : s \in 0..MaxSlack} :
                           n - c >= MinSize}})

\* predict returns the sorted ends of the segments: the breakpoints found,
\* then n_samples
Predict(n, n_bkps) == {bkps \o <<n>> : bkps \in BkpsFrom(0, n, Min({n_bkps, MaxBkps}))}

change_point_analysis ==
    /\ call' = [name |-> "change_point_analysis"]
    /\ UNCHANGED brent
    /\ IF ~ruptures_available
       THEN \* the handler of ImportError reads log_returns, never assigned
            /\ err' = "UnboundLocalError"
            /\ result' = [tag |-> "raised"]
       ELSE IF ~IsSome(brent.log_returns)
       THEN /\ err' = "AttributeError"
            /\ result' = [tag |-> "raised"]
       ELSE LET n == Len(brent.log_returns.v)
            IN \/ /\ ~SanityCheck(n, NBkps)
                  /\ err' = "BadSegmentationParameters"
                  /\ result' = [tag |-> "raised"]
               \/ \E change_points_pelt \in Predict(n, MaxBkps) :
                  \E change_points_binseg \in Predict(n, NBkps) :
                     /\ err' = "none"
                     /\ result' = Some(<<change_points_pelt, change_points_binseg>>)

\* run_basic_analysis
InitBrent ==
    /\ PYMCMC_AVAILABLE = FALSE
    /\ ruptures_available \in BOOLEAN
    /\ brent = NewBrent
    /\ rng = {}
    /\ history = <<>>
    /\ stdout = <<>>
    /\ dm = NewDataManager
    /\ call = [name |-> "__init__"]
    /\ data_path \in BrentPaths
    /\ events_path = Some("data/major_oil_events.csv")
    /\ events_file \in {None, Some(<<>>)}
    /\ df = None
    /\ log_returns = None
    /\ events_df = None
    /\ model = None
    /\ trace = None
    /\ change_points = None
    /\ regime_analysis = Unset
    /\ event_associations = Unset
    /\ report_file = None
    /\ result = None
    /\ err = "none"
    /\ pc = "idle"

RunBasicAnalysis ==
    /\ pc = "idle"
    /\ pc' = "load_data"
    /\ UNCHANGED <<inputVars, bayesVars, brent, samplerVars, appVars, call, result, err>>

LoadData ==
    /\ pc = "load_data"
    /\ load_data
    /\ pc' = After("preprocess_data")
    /\ UNCHANGED <<inputVars, bayesVars, samplerVars, appVars>>

PreprocessData ==
    /\ pc = "preprocess_data"
    /\ preprocess_data
    /\ pc' = After("change_point_analysis")
    /\ UNCHANGED <<inputVars, bayesVars, samplerVars, appVars>>

ChangePointAnalysis ==
    /\ pc = "change_point_analysis"
    /\ change_point_analysis
    /\ pc' = After("done")
    /\ UNCHANGED <<inputVars, bayesVars, samplerVars, appVars>>

NextBrent ==
    \/ RunBasicAnalysis
    \/ LoadData
    \/ PreprocessData
    \/ ChangePointAnalysis

SpecBrent == InitBrent /\ [][NextBrent]_vars

----------------------------------------------------------------------------
(* BrentOilAnalyzer.run_complete_analysis: one chained expression, each    *)
(* method looked up on what the call before it returned                    *)

basic_statistics ==
    /\ call' = [name |-> "basic_statistics"]
    /\ UNCHANGED brent
    /\ IF ~IsSome(brent.df_processed)
       THEN /\ err' = "TypeError"
            /\ result' = [tag |-> "raised"]
       ELSE /\ err' = "none"
            /\ result' = [tag |-> "self"]

\* series is what the caller evaluated for the first argument
test_stationarity(series, title) ==
    /\ call' = [name |-> "test_stationarity", title |-> title]
    /\ UNCHANGED brent
    /\ IF ~IsSome(series)
       THEN /\ err' = "AttributeError"
            /\ result' = [tag |-> "raised"]
       ELSE /\ err' = "none"
            /\ result' = [tag |-> "self"]

plot_time_series ==
    /\ call' = [name |-> "plot_time_series"]
    /\ UNCHANGED brent
    /\ IF ~IsSome(brent.df_processed)
       THEN /\ err' = "AttributeError"
            /\ result' = [tag |-> "raised"]
       ELSE /\ err' = "none"
            /\ result' = [tag |-> "self"]

volatility_analysis ==
    /\ call' = [name |-> "volatility_analysis"]
    /\ UNCHANGED brent
    /\ IF ~IsSome(brent.returns)
       THEN /\ err' = "AttributeError"
            /\ result' = [tag |-> "raised"]
       ELSE /\ err' = "none"
            /\ result' = [tag |-> "self"]

\* the events of the catalog that fall on a trading day with five days of
\* prices before it and five after it
EventImpacts(events, dates) ==
    SelectSeq(events,
              LAMBDA e : \E i \in 1..Len(dates) :
                            /\ dates[i] = e
                            /\ i - 1 >= 5
                            /\ (i - 1) + 5 < Len(dates))

event_impact_analysis ==
    /\ UNCHANGED brent
    /\ IF ~IsSome(brent.events_df)
       THEN /\ call' = [name |-> "event_impact_analysis"]
            /\ err' = "none"
            /\ result' = [tag |-> "self"]
       ELSE IF ~IsSome(brent.df_processed)
       THEN /\ call' = [name |-> "event_impact_analysis"]
            /\ err' = "AttributeError"
            /\ result' = [tag |-> "raised"]
       ELSE /\ call' = [name |-> "event_impact_analysis",
                        event_impacts |-> Len(EventImpacts(brent.events_df.v,
                                                           brent.df_processed.v))]
            /\ err' = "none"
            /\ result' = [tag |-> "self"]

\* receiver.event_impact_analysis(): the attribute is looked up on the
\* value the call before it returned
CallOnResult(receiver) ==
    IF receiver.tag = "self"
    THEN event_impact_analysis
    ELSE /\ err' = "AttributeError"
         /\ result' = [tag |-> "raised"]
         /\ UNCHANGED <<call, brent>>

BrentRunCompleteAnalysis ==
    /\ pc = "idle"
    /\ pc' = "load_data"
    /\ UNCHANGED <<inputVars, bayesVars, brent, samplerVars, appVars, call, result, err>>

BrentPreprocessData ==
    /\ pc = "preprocess_data"
    /\ preprocess_data
    /\ pc' = After("basic_statistics")
    /\ UNCHANGED <<inputVars, bayesVars, samplerVars, appVars>>

BasicStatistics ==
    /\ pc = "basic_statistics"
    /\ basic_statistics
    /\ pc' = After("test_stationarity_prices")
    /\ UNCHANGED <<inputVars, bayesVars, samplerVars, appVars>>

TestStationarityPrices ==
    /\ pc = "test_stationarity_prices"
    /\ test_stationarity(brent.df_processed, "Brent Oil Prices")
    /\ pc' = After("test_stationarity_returns")
    /\ UNCHANGED <<inputVars, bayesVars, samplerVars, appVars>>

TestStationarityReturns ==
    /\ pc = "test_stationarity_returns"
    /\ test_stationarity(brent.returns, "Daily Returns")
    /\ pc' = After("plot_time_series")
    /\ UNCHANGED <<inputVars, bayesVars, samplerVars, appVars>>

PlotTimeSeries ==
    /\ pc = "plot_time_series"
    /\ plot_time_series
    /\ pc' = After("volatility_analysis")
    /\ UNCHANGED <<inputVars, bayesVars, samplerVars, appVars>>

VolatilityAnalysis ==
    /\ pc = "volatility_analysis"
    /\ volatility_analysis
    /\ pc' = After("change_point_analysis")
    /\ UNCHANGED <<inputVars, bayesVars, samplerVars, appVars>>

BrentChangePointAnalysis ==
    /\ pc = "change_point_analysis"
    /\ change_point_analysis
    /\ pc' = After("event_impact_analysis")
    /\ UNCHANGED <<inputVars, bayesVars, samplerVars, appVars>>

EventImpactAnalysis ==
    /\ pc = "event_impact_analysis"
    /\ CallOnResult(result)
    /\ pc' = After("done")
    /\ UNCHANGED <<inputVars, bayesVars, samplerVars, appVars>>

NextBrentComplete ==
    \/ BrentRunCompleteAnalysis
    \/ LoadData
    \/ BrentPreprocessData
    \/ BasicStatistics
    \/ TestStationarityPrices
    \/ TestStationarityReturns
    \/ PlotTimeSeries
    \/ VolatilityAnalysis
    \/ BrentChangePointAnalysis
    \/ EventImpactAnalysis

SpecBrentComplete == InitBrent /\ [][NextBrentComplete]_vars

----------------------------------------------------------------------------
(* run_task2_analysis: main, check_dependencies, run_bayesian_analysis,    *)
(* run_basic_analysis.  stdout holds the lines the runner itself prints,   *)
(* without their decoration.  basic_statistics, plot_time_series and       *)
(* volatility_analysis change no field and are left out.                   *)

\* n_change_points=3
RunnerChangePoints == 3

BayesBanner == "RUNNING BAYESIAN CHANGE POINT ANALYSIS"
BasicBanner == "RUNNING BASIC CHANGE POINT ANALYSIS"

\* what check_dependencies prints
DependencyLines(pymc_available) ==
    IF pymc_available
    THEN <<"Checking dependencies...", "PyMC and ArviZ available">>
    ELSE <<"Checking dependencies...", "PyMC not available",
           "To install: pip install pymc arviz">>

\* what main prints before and after the fallback analysis
FallbackLines == <<"PyMC3 not available. Running basic analysis instead...">>
NextStepsLines ==
    <<"NEXT STEPS", "To run the full Bayesian analysis:",
      "1. Install PyMC3: pip install pymc arviz", "2. Run this script again",
      "3. Or run the Jupyter notebook: notebooks/Task2_Change_Point_Analysis.ipynb">>

Printed(line) == \E i \in 1..Len(stdout) : stdout[i] = line

\* a process in which nothing has run yet
NothingRun ==
    /\ brent = NewBrent
    /\ rng = {}
    /\ history = <<>>
    /\ stdout = <<>>
    /\ dm = NewDataManager
    /\ call = [name |-> "__init__"]
    /\ df = None
    /\ log_returns = None
    /\ events_df = None
    /\ model = None
    /\ trace = None
    /\ change_points = None
    /\ regime_analysis = Unset
    /\ event_associations = Unset
    /\ report_file = None
    /\ result = None
    /\ err = "none"
    /\ pc = "idle"

InitRunner ==
    /\ PYMCMC_AVAILABLE \in BOOLEAN
    /\ ruptures_available \in BOOLEAN
    /\ data_path \in RunnerPaths
    /\ events_path = Some("data/major_oil_events.csv")
    /\ events_file \in SmallEventFiles
    /\ NothingRun

\* main up to the first call on the analyzer it constructs
Main ==
    /\ pc = "idle"
    /\ LET pymc_available == PYMCMC_AVAILABLE
           head == <<"Task 2: Change Point Modeling and Insight Generation">>
                   \o DependencyLines(pymc_available)
       IN IF pymc_available
          THEN /\ stdout' = head \o <<BayesBanner>>
               /\ pc' = "load"
          ELSE /\ stdout' = head \o FallbackLines \o <<BasicBanner>>
               /\ pc' = "load_data"
    /\ UNCHANGED <<inputVars, selfVars, report_file, brent, samplerVars, dm,
                   call, result, err>>

\* analyzer.run_complete_analysis(n_change_points=3, ...)
RunnerBuild ==
    /\ pc = "build"
    /\ build_bayesian_change_point_model(RunnerChangePoints)
    /\ pc' = After("sample")
    /\ UNCHANGED <<inputVars, brent, appVars, samplerVars>>

\* run_bayesian_analysis after run_complete_analysis has returned
BayesianCompleted ==
    /\ pc = "done"
    /\ Printed(BayesBanner)
    /\ stdout' = stdout \o <<"Bayesian analysis completed!",
                             "Check the output/ directory for results">>
    /\ pc' = "exit"
    /\ UNCHANGED <<inputVars, selfVars, report_file, brent, samplerVars, dm,
                   call, result, err>>

\* run_basic_analysis after change_point_analysis has returned, and the rest
\* of main
BasicCompleted ==
    /\ pc = "done"
    /\ Printed(BasicBanner)
    /\ stdout' = stdout \o <<"Basic analysis completed!",
                             "Check the output/ directory for results">>
                        \o NextStepsLines
    /\ pc' = "exit"
    /\ UNCHANGED <<inputVars, selfVars, report_file, brent, samplerVars, dm,
                   call, result, err>>

NextRunner ==
    \/ Main
    \/ Load
    \/ RunnerBuild
    \/ Sample
    \/ CheckConvergence
    \/ Identify
    \/ Quantify
    \/ Associate
    \/ Plot
    \/ Report
    \/ BayesianCompleted
    \/ LoadData
    \/ PreprocessData
    \/ ChangePointAnalysis
    \/ BasicCompleted

SpecRunner == InitRunner /\ [][NextRunner]_vars

----------------------------------------------------------------------------
(* dashboard_api: the DataManager and the GET handlers of the resources.   *)
(* data_path is the file at data/BrentOilPrices.csv, events_file the one   *)
(* at data/major_oil_events.csv, report_file the one at                    *)
(* output/bayesian_change_point_report.txt.  Dates are day numbers, and    *)
(* strftime('%Y-%m-%d') followed by pd.to_datetime gives the day back.     *)

\* rows after the first of the price file the dashboard reads
DashLen == 3
\* change points a report on disk lists
MaxReported == 2

\* data_path when there is no file at data/BrentOilPrices.csv
NoPriceFile == <<0, 0, "absent">>
Exists(path) == path # NoPriceFile
DashPaths == {<<DashLen, 1, Positive>>, NoPriceFile}

\* the report on disk was written for a series two days longer than the
\* price file: the index of its log returns
ReportIndex == LogReturnIndex(CleanRows(PriceFile(DashLen + 2, 1, Positive)))

\* dates of its change points: the first two dates and the last
ReportedDates == {At(ReportIndex, 0), At(ReportIndex, 1), Last(ReportIndex)}

\* an entry of self.change_points with every estimate on date d
ReportedCp(d) ==
    [mean_date |-> d, mean_index |-> d - At(ReportIndex, 0),
     hdi_lower_date |-> d, hdi_upper_date |-> d]

ReportedCps ==
    {SortByMeanDate([j \in 1..Len(s) |-> ReportedCp(s[j])]) :
        s \in SeqsOf(ReportedDates, 0, MaxReported)}

\* the reports generate_insights_report writes for them: called right after
\* identify_change_points, or by run_complete_analysis with an empty catalog
Reports ==
    UNION {{ReportText(cps, ReportIndex, Unset, Unset),
            ReportText(cps, ReportIndex,
                       Some(RegimeAnalysis([n_mu |-> Len(cps) + 1], cps, ReportIndex)),
                       Some(Associations(cps, <<>>, DefaultWindowDays)))} :
           cps \in ReportedCps}

\* a line of the report: what it starts with once stripped, and the rest
Line(start, value) == [start |-> start, value |-> value]

RECURSIVE Flatten(_)
Flatten(ss) == IF ss = <<>> THEN <<>> ELSE Head(ss) \o Flatten(Tail(ss))

\* the lines report.append adds for a section
SectionLines(s) ==
    <<Line(s.title, <<>>)>> \o
    CASE s.title = "EXECUTIVE SUMMARY" ->
            <<Line("Analysis Period:", s.body.period),
              Line("Total Observations:", s.body.total_observations),
              Line("Detected Change Points:", s.body.detected_change_points)>>
      [] s.title = "DETECTED CHANGE POINTS" ->
            Flatten(Tuple([j \in 1..Len(s.body) |->
                <<Line("Change Point", <<"number", s.body[j].number>>),
                  Line("Date:", s.body[j].date),
                  Line("Confidence Interval:", s.body[j].confidence_interval),
                  Line("Uncertainty:", "days")>>]))
      [] s.title = "REGIME ANALYSIS" ->
            Flatten(Tuple([j \in 1..Len(s.body) |->
                <<Line("Regime", s.body[j].regime),
                  Line("Period:", s.body[j].period),
                  Line("Duration:", s.body[j].duration_days)>>]))
      [] s.title = "EVENT ASSOCIATIONS" ->
            Flatten(Tuple([j \in 1..Len(s.body) |->
                <<Line("Change Point", <<"date", s.body[j].change_point>>)>> \o
                (IF s.body[j].events = <<>>
                 THEN <<Line("No associated events found", <<>>)>>
                 ELSE Flatten(Tuple([k \in 1..Len(s.body[j].events) |->
                         <<Line("days:", s.body[j].events[k].days),
                           Line("Impact:", s.body[j].events[k].row)>>])))]))
      [] s.title = "QUANTITATIVE IMPACT ANALYSIS" ->
            Flatten(Tuple([j \in 1..Len(s.body) |->
                <<Line("Transition from Regime", s.body[j])>>]))

\* content.split('\n')
ReportLines(report) == Flatten(Tuple([i \in 1..Len(report) |-> SectionLines(report[i])]))

\* the loop of parse_change_point_report over the lines left
RECURSIVE ParseLines(_, _, _)
ParseLines(lines, current_cp, parsed) ==
    LET closed == IF IsSome(current_cp) THEN Append(parsed, current_cp.v) ELSE parsed
    IN IF lines = <<>> THEN closed
       ELSE LET line == Head(lines)
            IN IF line.start = "Change Point"
               THEN ParseLines(Tail(lines),
                               Some([name |-> line.value, date |-> Unset,
                                     confidence_interval |-> Unset,
                                     uncertainty |-> Unset]),
                               closed)
               ELSE IF IsSome(current_cp) /\ line.start = "Date:"
               THEN ParseLines(Tail(lines),
                               Some([current_cp.v EXCEPT !.date = Some(line.value)]),
                               parsed)
               ELSE IF IsSome(current_cp) /\ line.start = "Confidence Interval:"
               THEN ParseLines(Tail(lines),
                               Some([current_cp.v EXCEPT
                                        !.confidence_interval = Some(line.value)]),
                               parsed)
               ELSE IF IsSome(current_cp) /\ line.start = "Uncertainty:"
               THEN ParseLines(Tail(lines),
                               Some([current_cp.v EXCEPT
                                        !.uncertainty = Some(line.value)]),
                               parsed)
               ELSE ParseLines(Tail(lines), current_cp, parsed)

parse_change_point_report(report) == ParseLines(ReportLines(report), None, <<>>)

\* sorted(self.change_points, key=lambda x: x.get('date', '')): an entry
\* without a date sorts before every date
SortedCps(cps) ==
    StableSort(cps, [i \in 1..Len(cps) |->
                       IF IsSome(cps[i].date) THEN cps[i].date.v ELSE -1])

\* Series.std(ddof): NaN unless there are more than ddof values
Std(prices, ddof) ==
    IF Len(prices) <= ddof THEN "NaN"
    ELSE IF \A i, j \in 1..Len(prices) : prices[i] = prices[j] THEN "0.0"
    ELSE "positive"

\* regime_data['Price'].std(): pandas takes ddof=1
PriceStd(rows) == Std([i \in 1..Len(rows) |-> rows[i].Price], 1)

\* price_data['Date'].min() and .max()
MinDate(price_data) ==
    IF price_data = <<>> THEN NaT ELSE Min({price_data[i].Date : i \in 1..Len(price_data)})
MaxDate(price_data) ==
    IF price_data = <<>> THEN NaT ELSE Max({price_data[i].Date : i \in 1..Len(price_data)})

\* the rows with start <= Date <= end: both ends taken in
RegimeDataClosed(price_data, start, end) ==
    SelectSeq(price_data, LAMBDA r : r.Date >= start /\ r.Date <= end)

\* the rows with start <= Date < end
RegimeData(price_data, start, end) ==
    SelectSeq(price_data, LAMBDA r : r.Date >= start /\ r.Date < end)

\* the rows the statistics of each regime are taken from: regime_data of
\* every turn of the loop, then final_regime_data
RegimeSelections(sorted_cps, price_data) ==
    LET K == Len(sorted_cps)
    IN Tuple([j \in 1..(K + 1) |->
                 IF j <= K
                 THEN RegimeData(price_data,
                                 IF j = 1 THEN MinDate(price_data)
                                 ELSE sorted_cps[j - 1].date.v,
                                 sorted_cps[j].date.v)
                 ELSE SelectSeq(price_data,
                                LAMBDA r : r.Date >= Last(sorted_cps).date.v)])

\* generate_regime_analysis: the regimes, or the KeyError of cp['date']
generate_regime_analysis(cps, price_data) ==
    IF cps = <<>> THEN Some(<<>>)
    ELSE LET sorted_cps == SortedCps(cps)
             K == Len(sorted_cps)
         IN IF \E i \in 1..K : ~IsSome(sorted_cps[i].date)
            THEN [tag |-> "raised", err |-> "KeyError"]
            ELSE LET start(i) == IF i = 0 THEN MinDate(price_data)
                                 ELSE At(sorted_cps, i - 1).date.v
                     end(i) == At(sorted_cps, i).date.v
                     selections == RegimeSelections(sorted_cps, price_data)
                     found == Tuple([j \in 1..K |->
                                 [i |-> j - 1, regime_data |-> selections[j]]])
                     kept == SelectSeq(found, LAMBDA f : Len(f.regime_data) > 0)
                     regimes == Tuple([m \in 1..Len(kept) |->
                                   [regime_id |-> kept[m].i,
                                    start_date |-> start(kept[m].i),
                                    end_date |-> end(kept[m].i),
                                    duration_days |-> end(kept[m].i) - start(kept[m].i),
                                    std_price |-> PriceStd(kept[m].regime_data),
                                    change_point |-> Some(end(kept[m].i))]])
                     last_cp_date == Last(sorted_cps).date.v
                     final_regime_data == selections[K + 1]
                 IN Some(regimes \o
                         (IF Len(final_regime_data) > 0
                          THEN <<[regime_id |-> K,
                                  start_date |-> last_cp_date,
                                  end_date |-> MaxDate(price_data),
                                  duration_days |-> MaxDate(price_data) - last_cp_date,
                                  std_price |-> PriceStd(final_regime_data),
                                  change_point |-> None]>>
                          ELSE <<>>))

\* load_analysis_results on a manager d that holds the price data: an
\* exception of generate_regime_analysis is printed and leaves the field
load_analysis_results(d) ==
    LET parsed == IF IsSome(report_file)
                  THEN Some(parse_change_point_report(report_file.v))
                  ELSE d.change_points
        regimes == IF IsSome(parsed) /\ parsed.v # <<>>
                   THEN generate_regime_analysis(parsed.v, d.price_data.v)
                   ELSE None
    IN [d EXCEPT !.change_points = parsed,
                 !.regime_analysis = IF IsSome(regimes) THEN regimes ELSE @]

\* a DataFrame: its rows and what its Date column holds, strings after
\* dt.strftime('%Y-%m-%d'), timestamps after pd.to_datetime
Frame(rows, dates) == [tag |-> "Some", v |-> rows, dates |-> dates]

\* DataManager(): load_data stops at the first file it cannot read, prints
\* the exception and returns
DataManager ==
    IF ~Exists(data_path) THEN NewDataManager
    ELSE LET priced == [NewDataManager EXCEPT
                           !.price_data = Frame(CleanRows(ReadCsv(data_path)), "str")]
         IN IF ~IsSome(events_file) THEN priced
            ELSE load_analysis_results([priced EXCEPT
                                           !.events_data = Some(events_file.v)])

\* the query strings of a request: event_id left out, empty, not a number,
\* the index of the first row, the index after it
EventIds == {None, Some(""), Some("abc"), Some("0"), Some("1")}

\* str.isdigit() and int() on them
IsDigit(s) == s \in {"0", "1"}
IntOf(s) == CASE s = "0" -> 0 [] s = "1" -> 1

Response(status, body) == [status |-> status, body |-> body]

\* x or []
OrEmpty(x) == IF IsSome(x) /\ x.v # <<>> THEN x.v ELSE <<>>
\* len(x) if x else 0
LenOrZero(x) == IF IsSome(x) /\ x.v # <<>> THEN Len(x.v) ELSE 0

\* ChangePointsAPI.get
ChangePointsGet ==
    Response(200, [change_points |-> OrEmpty(dm.change_points),
                   regime_analysis |-> OrEmpty(dm.regime_analysis),
                   total_change_points |-> LenOrZero(dm.change_points)])

\* DashboardStatsAPI.get: len(None) raises TypeError, which the handler
\* turns into a 500
DashboardStatsGet ==
    IF ~IsSome(dm.price_data) \/ ~IsSome(dm.events_data)
    THEN Response(500, [error |-> "TypeError"])
    ELSE Response(200,
            [price_data |-> [total_records |-> Len(dm.price_data.v),
                             start |-> MinDate(dm.price_data.v),
                             end |-> MaxDate(dm.price_data.v),
                             std |-> PriceStd(dm.price_data.v)],
             events_data |-> [total_events |-> Len(dm.events_data.v)],
             analysis_results |->
                [change_points_count |-> LenOrZero(dm.change_points),
                 regimes_count |-> LenOrZero(dm.regime_analysis)]])

\* EventImpactAPI.get
EventImpactGet(event_id, window_days) ==
    IF ~IsSome(event_id) \/ event_id.v = ""
    THEN Response(400, [error |-> "event_id parameter required"])
    ELSE IF ~IsDigit(event_id.v)
    THEN Response(404, [error |-> "Event not found"])
    ELSE IF ~IsSome(dm.events_data)
    THEN Response(500, [error |-> "AttributeError"])
    ELSE IF IntOf(event_id.v) >= Len(dm.events_data.v)
    THEN Response(500, [error |-> "IndexError"])
    ELSE LET event_date == At(dm.events_data.v, IntOf(event_id.v))
             window_data == SelectSeq(dm.price_data.v,
                                LAMBDA r : /\ r.Date >= event_date - window_days
                                           /\ r.Date <= event_date + window_days)
             pre_event == SelectSeq(window_data, LAMBDA r : r.Date < event_date)
             post_event == SelectSeq(window_data, LAMBDA r : r.Date >= event_date)
         IN IF Len(window_data) = 0
            THEN Response(404, [error |-> "No price data available for this period"])
            ELSE Response(200,
                    [event |-> event_date,
                     window_days |-> window_days,
                     pre_event |-> [data_points |-> Len(pre_event),
                                    std_price |-> IF Len(pre_event) > 0
                                                  THEN PriceStd(pre_event) ELSE "None"],
                     post_event |-> [data_points |-> Len(post_event),
                                     std_price |-> IF Len(post_event) > 0
                                                   THEN PriceStd(post_event) ELSE "None"]])

\* a handler that works on the manager's own frame, without the copy
SameFrame(field) == <<"data_manager", field>>

\* data_manager.price_data.copy(): a frame of the handler's own
FrameCopy(field) == <<"copy", field>>

\* price_data['Date'] = pd.to_datetime(price_data['Date']) on the frame a
\* handler holds: the manager's field changes if the frame is the manager's
AssignDates(d, frame) ==
    IF frame = <<"data_manager", "price_data">>
    THEN [d EXCEPT !.price_data = Frame(@.v, "datetime64")]
    ELSE d

\* the manager after EventImpactAPI.get: once the event is found the
\* handler assigns the Date column of its copy of the price data
EventImpactManager(event_id) ==
    IF /\ IsSome(event_id)
       /\ IsDigit(event_id.v)
       /\ IsSome(dm.events_data)
       /\ IntOf(event_id.v) < Len(dm.events_data.v)
    THEN AssignDates(dm, FrameCopy("price_data"))
    ELSE dm

\* start_date and end_date of a query, and its limit (type=int)
DateArgs == {None, Some(1), Some(2)}
Limits == {None, Some(-1), Some(0), Some(2)}

\* DataFrame.tail(n): the last n rows; for a negative n all rows but the
\* first -n
FrameTail(rows, n) ==
    IF n >= 0 THEN SubSeq(rows, Max({1, Len(rows) - n + 1}), Len(rows))
    ELSE SubSeq(rows, Min({Len(rows), -n}) + 1, Len(rows))

\* data[data['Date'] >= start_date], data[data['Date'] <= end_date], each
\* applied if the argument is given and not empty
DateFiltered(rows, start_date, end_date) ==
    SelectSeq(rows, LAMBDA r : /\ IsSome(start_date) => r.Date >= start_date.v
                               /\ IsSome(end_date) => r.Date <= end_date.v)

\* PriceDataAPI.get: `if limit:` skips a limit of 0
PriceDataGet(start_date, end_date, limit) ==
    IF ~IsSome(dm.price_data)
    THEN Response(500, [error |-> "AttributeError"])
    ELSE LET filtered == DateFiltered(dm.price_data.v, start_date, end_date)
             data == IF IsSome(limit) /\ limit.v # 0
                     THEN FrameTail(filtered, limit.v) ELSE filtered
         IN Response(200, [data |-> data,
                           total_records |-> Len(data),
                           date_range |-> IF Len(data) > 0
                                          THEN <<MinDate(data), MaxDate(data)>>
                                          ELSE <<>>])

\* EventsDataAPI.get; the catalog rows carry their dates only, so the
\* category and impact filters select every row
EventsDataGet(start_date, end_date) ==
    IF ~IsSome(dm.events_data)
    THEN Response(500, [error |-> "AttributeError"])
    ELSE LET rows == [i \in 1..Len(dm.events_data.v) |-> [Date |-> dm.events_data.v[i]]]
             data == DateFiltered(rows, start_date, end_date)
         IN Response(200, [data |-> data, total_events |-> Len(data)])

\* the module is imported: data_manager = DataManager()
InitDashboard ==
    /\ PYMCMC_AVAILABLE = FALSE
    /\ ruptures_available = TRUE
    /\ brent = NewBrent
    /\ rng = {}
    /\ history = <<>>
    /\ stdout = <<>>
    /\ dm = NewDataManager
    /\ call = [name |-> "import"]
    /\ data_path \in DashPaths
    /\ events_path = Some("data/major_oil_events.csv")
    /\ events_file \in SmallEventFiles
    /\ df = None
    /\ log_returns = None
    /\ events_df = None
    /\ model = None
    /\ trace = None
    /\ change_points = None
    /\ regime_analysis = Unset
    /\ event_associations = Unset
    /\ report_file \in {None} \cup {Some(r) : r \in Reports}
    /\ result = None
    /\ err = "none"
    /\ pc = "idle"

dashVars == <<inputVars, selfVars, report_file, brent, samplerVars, stdout, err>>

NewDataManagerLoaded ==
    /\ pc = "idle"
    /\ pc' = "serving"
    /\ call' = [name |-> "DataManager"]
    /\ dm' = DataManager
    /\ result' = None
    /\ UNCHANGED dashVars

GetChangePoints ==
    /\ pc = "serving"
    /\ call' = [name |-> "ChangePointsAPI.get"]
    /\ result' = ChangePointsGet
    /\ UNCHANGED <<dashVars, dm, pc>>

GetStats ==
    /\ pc = "serving"
    /\ call' = [name |-> "DashboardStatsAPI.get"]
    /\ result' = DashboardStatsGet
    /\ UNCHANGED <<dashVars, dm, pc>>

GetEventImpact ==
    /\ pc = "serving"
    /\ \E event_id \in EventIds, window_days \in Windows :
          /\ call' = [name |-> "EventImpactAPI.get", event_id |-> event_id,
                      window_days |-> window_days]
          /\ result' = EventImpactGet(event_id, window_days)
          /\ dm' = EventImpactManager(event_id)
    /\ UNCHANGED <<dashVars, pc>>

GetPriceData ==
    /\ pc = "serving"
    /\ \E start_date \in DateArgs, end_date \in DateArgs, limit \in Limits :
          /\ call' = [name |-> "PriceDataAPI.get", start_date |-> start_date,
                      end_date |-> end_date, limit |-> limit]
          /\ result' = PriceDataGet(start_date, end_date, limit)
    /\ UNCHANGED <<dashVars, dm, pc>>

GetEvents ==
    /\ pc = "serving"
    /\ \E start_date \in DateArgs, end_date \in DateArgs :
          /\ call' = [name |-> "EventsDataAPI.get", start_date |-> start_date,
                      end_date |-> end_date]
          /\ result' = EventsDataGet(start_date, end_date)
    /\ UNCHANGED <<dashVars, dm, pc>>

NextDashboard ==
    \/ NewDataManagerLoaded
    \/ GetPriceData
    \/ GetEvents
    \/ GetChangePoints
    \/ GetStats
    \/ GetEventImpact

SpecDashboard == InitDashboard /\ [][NextDashboard]_vars

----------------------------------------------------------------------------
(* Properties *)

Returned(name) == call.name = name /\ err = "none"

\* the regimes quantify_regime_impacts has just returned
Regimes == result.v
Index == log_returns.v

\* C1: the regimes returned by quantify_regime_impacts are contiguous and
\* cover the return series: the first starts at the first return date, the
\* last ends at the last return date, each ends where the next starts, none
\* runs backwards, and the durations add up to the span of the series.
C1_RegimesCoverSeries ==
    Returned("quantify_regime_impacts") =>
        /\ Len(Regimes) >= 1
        /\ Regimes[1].start_date = At(Index, 0)
        /\ Last(Regimes).end_date = Last(Index)
        /\ \A i \in 1..(Len(Regimes) - 1) :
              Regimes[i].end_date = Regimes[i + 1].start_date
        /\ \A i \in 1..Len(Regimes) :
              /\ Regimes[i].start_date <= Regimes[i].end_date
              /\ Regimes[i].duration_days = Regimes[i].end_date - Regimes[i].start_date
        /\ SumSeq([i \in 1..Len(Regimes) |-> Regimes[i].duration_days])
              = Last(Index) - At(Index, 0)

\* three regimes of positive length around two change points
C1_Witness ==
    /\ Returned("quantify_regime_impacts")
    /\ Len(change_points.v) = 2
    /\ Len(Regimes) = 3
    /\ \A i \in 1..3 : Regimes[i].duration_days > 0

\* C2: the change points identify_change_points produces are in time order:
\* consecutive ones have strictly increasing mean_index and mean_date and
\* lie at least 50 observations apart.
C2_StrictlyIncreasing ==
    IsSome(change_points) =>
        \A i \in 1..(Len(change_points.v) - 1) :
            /\ change_points.v[i].mean_index < change_points.v[i + 1].mean_index
            /\ change_points.v[i].mean_date < change_points.v[i + 1].mean_date
            /\ change_points.v[i + 1].mean_index - change_points.v[i].mean_index
                  >= MinRegimeSize

\* the series is long enough for the change points asked for
LongEnough(n, k) == n >= 2 * MinRegimeSize * (k + 1)

\* C3: for a series shorter than 2 * 50 * (K+1) the detector fails fast with
\* a configuration error: no model, trace or change points come to exist.
C3_TooShortFailsFast ==
    /\ (IsSome(model) \/ IsSome(trace) \/ IsSome(change_points)) =>
          /\ IsSome(model)
          /\ LongEnough(model.v.n, model.v.n_change_points)
    /\ (/\ call.name = "build_bayesian_change_point_model"
        /\ IsSome(log_returns)
        /\ ~LongEnough(Len(log_returns.v), call.n_change_points)) =>
          (PYMCMC_AVAILABLE => err # "none")

\* C4: the likelihood gives the observation at position t the parameters of
\* the regime that contains t: regime i, where i change points are <= t.
C4_LikelihoodFollowsRegimes ==
    IsSome(trace) =>
        \A d \in 1..Len(trace.v.posterior) :
            \A t \in 0..(model.v.n - 1) :
                LikelihoodRegime(t) =
                    Cardinality({j \in 1..trace.v.n_cp : trace.v.posterior[d][j] <= t})

\* C5: neither list change_point_analysis returns contains index 0 or the
\* final index of the return series, the end-of-series marker included.
C5_NoEdgeBreaks ==
    (Returned("change_point_analysis") /\ IsSome(result)) =>
        LET n == Len(brent.log_returns.v)
        IN \A l \in 1..2 :
              \A k \in 1..Len(result.v[l]) :
                  result.v[l][k] \notin {0, n - 1, n}

\* the association list associate_with_events has just returned
Assocs == result.v

\* rows of the catalog listed for the j-th change point
ListedRows(j) ==
    {Assocs[j].associated_events[k].row : k \in 1..Len(Assocs[j].associated_events)}

\* C6: an event is in a change point's list exactly if it lies within
\* window_days of the change point's date, on either side; it is listed
\* once, with that distance.
C6_WithinWindowIff ==
    (Returned("associate_with_events") /\ IsSome(result)) =>
        /\ Len(Assocs) = Len(change_points.v)
        /\ \A j \in 1..Len(Assocs) :
              /\ \A k \in 1..Len(events_df.v) :
                    (k - 1) \in ListedRows(j)
                       <=> Abs(events_df.v[k] - change_points.v[j].mean_date)
                              <= call.window_days
              /\ Cardinality(ListedRows(j)) = Len(Assocs[j].associated_events)
              /\ \A k \in 1..Len(Assocs[j].associated_events) :
                    LET e == Assocs[j].associated_events[k]
                    IN /\ e.event_date = At(events_df.v, e.row)
                       /\ e.days_from_cp
                             = Abs(e.event_date - change_points.v[j].mean_date)

\* events exactly window_days before and after are listed, one a day
\* further is not
C6_Witness ==
    /\ Returned("associate_with_events")
    /\ IsSome(result)
    /\ \E j \in 1..Len(Assocs) :
          LET d == change_points.v[j].mean_date
              w == call.window_days
          IN /\ \E b, a, x \in 1..Len(events_df.v) :
                   /\ events_df.v[b] = d - w
                   /\ events_df.v[a] = d + w
                   /\ Abs(events_df.v[x] - d) = w + 1
                   /\ (b - 1) \in ListedRows(j)
                   /\ (a - 1) \in ListedRows(j)
                   /\ (x - 1) \notin ListedRows(j)

\* C7: each list is ascending in the distance from the change point, events
\* at the same distance in the order of the catalog.
C7_SortedByProximity ==
    (Returned("associate_with_events") /\ IsSome(result)) =>
        \A j \in 1..Len(Assocs) :
            \A k \in 1..(Len(Assocs[j].associated_events) - 1) :
                LET a == Assocs[j].associated_events[k]
                    b == Assocs[j].associated_events[k + 1]
                IN \/ a.days_from_cp < b.days_from_cp
                   \/ a.days_from_cp = b.days_from_cp /\ a.row < b.row

\* a list in which the sort moved a later row forward and kept two rows
\* at one distance in catalog order
C7_Witness ==
    /\ Returned("associate_with_events")
    /\ IsSome(result)
    /\ \E j \in 1..Len(Assocs) :
          LET l == Assocs[j].associated_events
          IN /\ Len(l) = 3
             /\ l[1].days_from_cp = l[2].days_from_cp
             /\ l[2].days_from_cp < l[3].days_from_cp
             /\ l[3].row < l[1].row

\* one entry for every change point, in their order, with no events
EmptyAssociations(assocs, cps) ==
    /\ Len(assocs) = Len(cps)
    /\ \A j \in 1..Len(cps) :
          /\ assocs[j].change_point_date = cps[j].mean_date
          /\ assocs[j].change_point_index = cps[j].mean_index
          /\ assocs[j].associated_events = <<>>

\* C8: with change points identified and no event catalog (events_df is
\* None), associate_with_events returns one entry per change point, each
\* with an empty event list.
C8_AbsentCatalogGivesEmptyLists ==
    (/\ call.name = "associate_with_events"
     /\ IsSome(change_points)
     /\ events_df = None) =>
        /\ err = "none"
        /\ IsSome(result)
        /\ EmptyAssociations(result.v, change_points.v)

\* C9: with a catalog of zero events and at least one change point,
\* associate_with_events returns one entry per change point, in their order,
\* each with an empty event list.
C9_EmptyCatalogGivesEmptyLists ==
    (/\ call.name = "associate_with_events"
     /\ IsSome(change_points)
     /\ Len(change_points.v) >= 1
     /\ events_df = Some(<<>>)) =>
        /\ err = "none"
        /\ IsSome(result)
        /\ EmptyAssociations(result.v, change_points.v)

\* two change points and an empty catalog
C9_Witness ==
    /\ Returned("associate_with_events")
    /\ IsSome(change_points)
    /\ Len(change_points.v) = 2
    /\ events_df = Some(<<>>)
    /\ IsSome(result)
    /\ Len(result.v) = 2

\* the report says that event data is missing
HasMissingEventsWarning(report) ==
    \E i \in 1..Len(report) : report[i].title = "EVENT DATA MISSING"

\* C10: run_complete_analysis, once the model could be built and sampled,
\* always completes the report; without event data the report says so.
C10_ReportAlwaysCompletes ==
    /\ (pc = "raised" /\ call.name # "associate_with_events") =>
          err \in {"ImportError", "SamplingError"}
    /\ (pc = "done" /\ call.name = "generate_insights_report") =>
          /\ IsSome(report_file)
          /\ events_df = None => HasMissingEventsWarning(report_file.v)


\* the lines the runner can print that say that uncertainty quantification
\* (credible intervals, posterior spread) is unavailable: it has none
UncertaintyWarnings == {}

\* the analysis main started goes by the backend: the basic one exactly if
\* the backend could not be imported, the Bayesian one exactly if it could,
\* one of the two and never both
DispatchedByBackend ==
    /\ Printed(BasicBanner) <=> ~PYMCMC_AVAILABLE
    /\ Printed(BayesBanner) <=> PYMCMC_AVAILABLE
    /\ Cardinality({i \in 1..Len(stdout) : stdout[i] \in {BasicBanner, BayesBanner}}) = 1

\* C11: once main has dispatched, the basic analysis has started exactly if
\* the sampling backend could not be imported and the Bayesian analysis
\* exactly if it could, one of the two and never both, and in the fallback
\* a warning that uncertainty quantification is unavailable was printed.
C11_FallbackWithWarning ==
    stdout # <<>> =>
        /\ DispatchedByBackend
        /\ ~PYMCMC_AVAILABLE => \E w \in UncertaintyWarnings : Printed(w)

\* the cleaned price series and the log returns an analyzer holds
Cleaned ==
    (IF IsSome(df)
     THEN {[prices |-> df.v, log_returns |-> log_returns.v]} ELSE {})
    \cup
    (IF IsSome(brent.df_processed)
     THEN {[prices |-> brent.df_processed.v, log_returns |-> brent.log_returns.v]}
     ELSE {})

\* C12: after preprocessing a cleaned price series of at least one row, the
\* log returns are exactly one fewer than the prices: the dates of the
\* prices but the first.
C12_OneReturnFewer ==
    \A c \in Cleaned :
        Len(c.prices) >= 1 =>
            /\ Len(c.log_returns) = Len(c.prices) - 1
            /\ c.log_returns = Tail(c.prices)

\* C13: the cleaned price series has strictly increasing dates, none twice.
C13_StrictlyIncreasingDates ==
    \A c \in Cleaned :
        \A i \in 1..(Len(c.prices) - 1) : c.prices[i] < c.prices[i + 1]

\* two runs of the detector on the same series with the same arguments
SameRun(a, b) ==
    /\ a.series = b.series
    /\ a.n_change_points = b.n_change_points
    /\ a.draws = b.draws

\* C14: two runs of the detector on the same series with the same
\* parameters, the seed being the detector's own, give the same mean and
\* median index for every change point.
C14_SameSeedSameEstimates ==
    \A i, j \in 1..Len(history) :
        SameRun(history[i], history[j]) =>
            /\ history[i].seed = history[j].seed
            /\ history[i].estimates = history[j].estimates

\* the detector has run twice for one change point with the same arguments
C14_Witness ==
    /\ Len(history) = 2
    /\ SameRun(history[1], history[2])
    /\ history[1].n_change_points = 1
    /\ Len(history[2].estimates) = 1
    /\ history[1].estimates = history[2].estimates

\* C19: the report file holds exactly the text the most recent completed
\* generate_insights_report rendered: a call that returns leaves the file
\* equal to the text it returns, and no other step changes the file.
C19_ReportRegenerated ==
    [][IF call'.name = "generate_insights_report" /\ err' = "none"
       THEN report_file' = result'
       ELSE report_file' = report_file]_vars

\* a report written over the report of an earlier run that had another
\* number of change points
C19_Witness ==
    /\ Returned("generate_insights_report")
    /\ Len(history) = 2
    /\ history[1].n_change_points # history[2].n_change_points
    /\ IsSome(report_file)
    /\ report_file.v[1].body.detected_change_points = history[2].n_change_points


\* the report says that the sampler may not have converged
HasConvergenceWarning(report) ==
    \E i \in 1..Len(report) : report[i].title = "CONVERGENCE WARNING"

\* C15: an R-hat above 1.1 is a warning and not an error: the stages after
\* check_convergence still run, and the report that run_complete_analysis
\* writes contains the convergence warning.
C15_ReportCarriesConvergenceWarning ==
    /\ (pc = "raised" /\ IsSome(trace) /\ trace.v.r_hat_high) =>
          call.name \notin {"check_convergence", "identify_change_points",
                            "quantify_regime_impacts"}
    /\ (pc = "done" /\ Returned("generate_insights_report")
           /\ IsSome(trace) /\ trace.v.r_hat_high) =>
          HasConvergenceWarning(report_file.v)


\* the rows of the price data that fall in a regime of the dashboard
Observations(regime) ==
    SelectSeq(dm.price_data.v,
              LAMBDA r : /\ r.Date >= regime.start_date
                         /\ (IsSome(regime.change_point) => r.Date < regime.end_date))

\* C16: a regime with exactly one observation is reported with a standard
\* deviation of 0, never NaN, by DataManager.generate_regime_analysis.
C16_OneObservationStdZero ==
    (pc = "serving" /\ IsSome(dm.regime_analysis)) =>
        \A j \in 1..Len(dm.regime_analysis.v) :
            Len(Observations(dm.regime_analysis.v[j])) = 1 =>
                dm.regime_analysis.v[j].std_price = "0.0"

\* C17: for a non-empty list of change points generate_regime_analysis
\* returns one regime more than there are change points, with the
\* regime_id values 0..K in order.
C17_OneRegimeMoreThanChangePoints ==
    (pc = "serving" /\ IsSome(dm.regime_analysis)) =>
        /\ Len(dm.regime_analysis.v) = Len(dm.change_points.v) + 1
        /\ \A j \in 1..Len(dm.regime_analysis.v) :
              dm.regime_analysis.v[j].regime_id = j - 1

\* C18: without a report file the change-point query answers with empty
\* lists and a count of zero, and the statistics query with zero change
\* points and zero regimes; neither answers with an error.
C18_NoReportGivesEmptyResults ==
    (pc = "serving" /\ report_file = None) =>
        /\ call.name = "ChangePointsAPI.get" =>
              /\ result.status = 200
              /\ result.body.change_points = <<>>
              /\ result.body.regime_analysis = <<>>
              /\ result.body.total_change_points = 0
        /\ call.name = "DashboardStatsAPI.get" =>
              /\ result.status = 200
              /\ result.body.analysis_results.change_points_count = 0
              /\ result.body.analysis_results.regimes_count = 0

\* the rows of the catalog on disk
Catalog == IF IsSome(events_file) THEN events_file.v ELSE <<>>

\* C20: with the catalog loaded, the event-impact query answers 400 when
\* event_id is missing, 404 when event_id is not a number or is an index
\* beyond the catalog, and never 500 for such a lookup.
C20_UnknownEventIsNotFound ==
    (call.name = "EventImpactAPI.get" /\ IsSome(dm.events_data)) =>
        /\ ~IsSome(call.event_id) => result.status = 400
        /\ (/\ IsSome(call.event_id)
            /\ call.event_id.v # ""
            /\ (~IsDigit(call.event_id.v) \/ IntOf(call.event_id.v) >= Len(Catalog))) =>
              result.status = 404
        /\ (~IsSome(call.event_id) \/ ~IsDigit(call.event_id.v)
              \/ IntOf(call.event_id.v) >= Len(Catalog)) =>
              result.status # 500


\* C21: no GET handler changes the data the manager loaded: after any
\* sequence of requests price_data, events_data, change_points and
\* regime_analysis are what DataManager() made them.
C21_HandlersLeaveManagerAlone ==
    pc = "serving" => dm = DataManager

\* an event-impact request found its event and its prices, after the
\* handler has assigned the Date column of its frame
C21_Witness ==
    /\ pc = "serving"
    /\ call.name = "EventImpactAPI.get"
    /\ result.status = 200
    /\ IsSome(dm.price_data)
    /\ dm = DataManager


\* the rows of the loaded price data between the date bounds of the
\* request, both inclusive
InDateRange ==
    SelectSeq(dm.price_data.v,
              LAMBDA r : /\ IsSome(call.start_date) => r.Date >= call.start_date.v
                         /\ IsSome(call.end_date) => r.Date <= call.end_date.v)

\* C26: the price-data query returns at most `limit` records (none for a
\* limit of 0 or below), the latest ones of the series between the
\* inclusive date bounds, and total_records counts the records returned.
C26_LimitHonoured ==
    (call.name = "PriceDataAPI.get" /\ result.status = 200) =>
        LET data == result.body.data
            n == Len(InDateRange)
        IN /\ IsSome(call.limit) => Len(data) <= Max({call.limit.v, 0})
           /\ Len(data) <= n
           /\ data = SubSeq(InDateRange, n - Len(data) + 1, n)
           /\ result.body.total_records = Len(data)


\* the entries of the detected-change-points section of the report on disk
Listed ==
    LET i == CHOOSE i \in 1..Len(report_file.v) :
                 report_file.v[i].title = "DETECTED CHANGE POINTS"
    IN report_file.v[i].body

\* C23: parse_change_point_report gives back the change points the report
\* lists: as many entries as the detected-change-points section has, each
\* with the date, the confidence interval and the uncertainty written.
C23_ReportRoundTrip ==
    (pc = "serving" /\ IsSome(report_file) /\ IsSome(dm.events_data)) =>
        /\ IsSome(dm.change_points)
        /\ Len(dm.change_points.v) = Len(Listed)
        /\ \A j \in 1..Len(Listed) :
              /\ dm.change_points.v[j].date = Some(Listed[j].date)
              /\ dm.change_points.v[j].confidence_interval =
                    Some(Listed[j].confidence_interval)
              /\ IsSome(dm.change_points.v[j].uncertainty)


\* in how many of the regime selections of the loaded manager a row is
TimesCounted(row) ==
    LET selections == RegimeSelections(SortedCps(dm.change_points.v), dm.price_data.v)
    IN Cardinality({<<j, q>> \in (1..Len(selections)) \X (1..Len(dm.price_data.v)) :
                       q <= Len(selections[j]) /\ selections[j][q] = row})

\* C24: for a non-empty list of dated change points the selections
\* generate_regime_analysis takes its statistics from partition the price
\* series: every price row is in exactly one of them.
C24_RegimesPartitionPrices ==
    (pc = "serving" /\ IsSome(dm.regime_analysis)) =>
        \A p \in 1..Len(dm.price_data.v) : TimesCounted(dm.price_data.v[p]) = 1

\* two change points, and a price row dated on one of them
C24_Witness ==
    /\ pc = "serving"
    /\ IsSome(dm.regime_analysis)
    /\ Len(dm.change_points.v) = 2
    /\ dm.change_points.v[1].date # dm.change_points.v[2].date
    /\ \E p \in 1..Len(dm.price_data.v) :
          Some(dm.price_data.v[p].Date) = dm.change_points.v[1].date


\* the values cp_i can take in a model of n observations: those of its
\* range, for every value cp_{i-1} can take
RECURSIVE CpValues(_, _)
CpValues(i, n) ==
    IF i = 0 THEN CpLower(0, 0)..CpUpper(0, n)
    ELSE UNION {CpLower(i, prev)..CpUpper(i, n) : prev \in CpValues(i - 1, n)}

\* C30: in every model that build_bayesian_change_point_model builds each
\* change point has a non-empty range: 50 <= int(0.8*n) for cp_0, and
\* cp_{i-1} + 50 <= int(0.9*n) for every later one and every value its
\* predecessor can take.
C30_RangesNotEmpty ==
    (Returned("build_bayesian_change_point_model") /\ IsSome(model)) =>
        \A i \in 0..(model.v.n_change_points - 1) :
            IF i = 0 THEN CpLower(0, 0) <= CpUpper(0, model.v.n)
            ELSE \A prev \in CpValues(i - 1, model.v.n) :
                    CpLower(i, prev) <= CpUpper(i, model.v.n)


\* the stage called has no predecessor's result to work on
CalledEarly(name) ==
    \/ name = "run_mcmc_sampling" /\ ~IsSome(model)
    \/ name \in {"check_convergence", "identify_change_points"} /\ ~IsSome(trace)
    \/ /\ name \in {"quantify_regime_impacts", "plot_change_point_analysis",
                     "generate_insights_report"}
       /\ ~IsSome(change_points)

\* C22: whatever the order of the calls, change_points is set only if a
\* trace is and a trace only if a model is; a stage called before its
\* predecessor raises ValueError and leaves model, trace and change_points
\* as they were.
C22_StagesNeedPredecessors ==
    [][/\ IsSome(change_points') => IsSome(trace')
       /\ IsSome(trace') => IsSome(model')
       /\ CalledEarly(call'.name) =>
             /\ err' = "ValueError"
             /\ model' = model
             /\ trace' = trace
             /\ change_points' = change_points]_vars

\* identify_change_points called on a built model that was never sampled
C22_Witness ==
    /\ call.name = "identify_change_points"
    /\ err = "ValueError"
    /\ IsSome(model)
    /\ ~IsSome(trace)
    /\ ~IsSome(change_points)


\* the stages of run_complete_analysis, in the order of its body
Stages ==
    <<"load_and_preprocess_data", "build_bayesian_change_point_model",
      "run_mcmc_sampling", "check_convergence", "identify_change_points",
      "quantify_regime_impacts", "associate_with_events",
      "plot_change_point_analysis", "generate_insights_report">>

Position(name) == CHOOSE i \in 1..Len(Stages) : Stages[i] = name

\* run_complete_analysis is under way
Running == pc \notin {"idle", "done", "raised"}

\* C25: run_complete_analysis calls its stages in the fixed order: a stage
\* is called only when the stage before it has returned (the first when
\* none was called yet), so each runs at most once and none runs after a
\* stage has raised; the run is over when the report has returned or a
\* stage has raised.
C25_StagesInOrder ==
    [][Running =>
          /\ IF call.name = "__init__" THEN call'.name = Stages[1]
             ELSE /\ err = "none"
                  /\ Position(call.name) < Len(Stages)
                  /\ call'.name = Stages[Position(call.name) + 1]
          /\ (err' # "none") = (pc' = "raised")
          /\ (pc' = "done") = (call'.name = Stages[Len(Stages)] /\ err' = "none")]_vars

\* the sampler raised, and run_complete_analysis with it
C25_Witness ==
    /\ pc = "raised"
    /\ call.name = "run_mcmc_sampling"
    /\ err = "SamplingError"
    /\ ~IsSome(trace)


\* C28: when ruptures cannot be imported, change_point_analysis does not
\* raise: it analyses the log-returns with rolling windows and returns
\* (None, None)
C28_ImportErrorFallsBack ==
    (/\ call.name = "change_point_analysis"
     /\ ~ruptures_available
     /\ IsSome(brent.log_returns))
        => /\ err = "none"
           /\ result = Some(<<None, None>>)

\* C27: when every stage up to change_point_analysis has succeeded,
\* run_complete_analysis goes on to run event_impact_analysis, and when that
\* succeeds too the pipeline is complete and its last call returned the
\* analyzer
C27_EventImpactRunsAfterChangePoints ==
    [][pc = "event_impact_analysis" =>
          /\ call'.name = "event_impact_analysis"
          /\ (err' = "none" => pc' = "done" /\ result'.tag = "self")]_vars


\* C29: a report that generate_insights_report has written carries the
\* regime sections and the event-association sections computed from the
\* change points it lists, never those of an earlier run
C29_ReportOfOneRun ==
    (/\ call.name = "generate_insights_report"
     /\ err = "none")
        => /\ report_file = result
           /\ RegimeSections(regime_analysis)
                 = RegimeSections(Some(RegimeAnalysis(trace.v, change_points.v,
                                                      log_returns.v)))
           /\ EventSections(event_associations)
                 = EventSections(Some(Associations(change_points.v, events_df.v,
                                                   DefaultWindowDays)))

====
